---- MODULE Spec2Model ----
(***************************************************************************)
(* A model of timeslots/timely.py: BusinessHours, EventSlot, TimeSlot and  *)
(* Calendar.                                                               *)
(*                                                                         *)
(* Instants (datetime) are whole minutes counted from Monday 00:00 of a    *)
(* reference week; durations (timedelta) are whole minutes.  An optional   *)
(* argument is a sequence of length 0 (None) or 1 (the value).  A method   *)
(* of an object is an operator from the object to [obj, exc]: the object   *)
(* after the call and the exception that left it ("" when it returned).    *)
(***************************************************************************)
EXTENDS Integers, Sequences, FiniteSets, TLC

VARIABLES
    ts,        \* the TimeSlot under test: <<>> before construction, <<object>> after
    call,      \* the last TimeSlot call: operation, argument, exception, object before
    cal,       \* the Calendar object
    calcall,   \* the last Calendar call: operation, argument, exception, Calendar before
    probe      \* the last call of a pure method: inputs and returned value

vars == <<ts, call, cal, calcall, probe>>

----------------------------------------------------------------------------
(* datetime / timedelta arithmetic *)

MinutesPerHour == 60
MinutesPerDay == 24 * MinutesPerHour

None == <<>>
Some(v) == <<v>>

\* datetime.date(): the calendar day of an instant
date(t) == t \div MinutesPerDay

\* datetime.weekday(): 0 = Monday ... 6 = Sunday
weekday(t) == date(t) % 7

\* datetime.time(): the time of day of an instant
time(t) == t % MinutesPerDay

\* timedelta.seconds // 60: the minutes of a timedelta without its days
\* (timedelta normalises to 0 <= seconds < 86400, the rest is .days)
seconds_div_60(td) == td % MinutesPerDay

\* truth value of an optional timedelta: None and timedelta(0) are both false
truthy_td(o) == o # None /\ o[1] # 0

\* an instant from day, hour and minute
At(day, h, m) == day * MinutesPerDay + h * MinutesPerHour + m

----------------------------------------------------------------------------
(* BusinessHours *)

\* an "HH:MM" string of the table, kept as its two numbers
HM(h, m) == [h |-> h, m |-> m]

\* datetime.strptime(s, '%H:%M').time()
strptime_time(s) == s.h * MinutesPerHour + s.m

\* the default table: 08:00-18:00 Monday to Friday, closed Saturday and Sunday
DefaultBusinessHours ==
    [d \in 1..7 |-> IF d <= 5 THEN <<HM(8, 0), HM(18, 0)>> ELSE None]

is_in_business_hours_strict(self, dt_after, dt_before) ==
    LET e == self[weekday(dt_after) + 1]
    IN IF e # None
       THEN strptime_time(e[1]) < time(dt_after)
            /\ time(dt_before) < strptime_time(e[2])
       ELSE FALSE

is_in_business_hours_dated(self, dt_after, dt_before) ==
    LET e == self[weekday(dt_after) + 1]
    IN IF e # None
       THEN strptime_time(e[1]) <= time(dt_after)
            /\ time(dt_before) <= strptime_time(e[2])
            /\ date(dt_after) = date(dt_before)
       ELSE FALSE

is_in_business_hours(self, dt_after, dt_before) ==
    LET e == self[weekday(dt_after) + 1]
    IN IF e # None
       THEN LET _after == strptime_time(e[1])
                _before == strptime_time(e[2])
            IN _after <= time(dt_after) /\ time(dt_before) <= _before
       ELSE FALSE

----------------------------------------------------------------------------
(* EventSlot *)

DefaultDuration == 30

\* EventSlot.__init__; id is the object's identity (0 for slots a TimeSlot makes,
\* whose identity nothing compares)
EventSlot(id, start_time, end_time, duration) ==
    LET d == IF truthy_td(duration) THEN duration[1] ELSE DefaultDuration
    IN [id |-> id,
        duration |-> d,
        start_time |-> start_time,
        end_time |-> IF end_time # None THEN end_time[1] ELSE start_time + d]

\* EventSlot.extends: the duration is added to end_time, the object is the same
EventSlot_extends(self, duration) == [self EXCEPT !.end_time = @ + duration]

is_overlapping_start_inside(self, other) ==
    self.start_time < other.end_time /\ self.start_time >= other.start_time

is_overlapping_closed(self, other) ==
    self.start_time <= other.end_time /\ self.end_time >= other.start_time

is_overlapping(self, other) ==
    self.start_time < other.end_time /\ self.end_time > other.start_time

----------------------------------------------------------------------------
(* TimeSlot: items of __slots *)

\* a datetime item of __slots
DT(t) == [kind |-> "datetime", t |-> t]

\* an EventSlot item of __slots
EV(e) == [kind |-> "EventSlot", e |-> e]

\* the start instant of an item, whatever its kind
StartOf(x) == IF x.kind = "datetime" THEN x.t ELSE x.e.start_time

Ret(obj) == [obj |-> obj, exc |-> ""]
Raise(obj, exc) == [obj |-> obj, exc |-> exc]

\* rrulestr("FREQ=MINUTELY;INTERVAL=n", dtstart=start_time)
rrulestr(interval, dtstart) == [interval |-> interval, dtstart |-> dtstart]

\* rrule.between(after, before, inc=True): the occurrences dtstart + k*interval
\* with after <= t <= before, in ascending order
between(rule, after, before) ==
    LET first == IF after <= rule.dtstart THEN 0
                 ELSE ((after - rule.dtstart) + rule.interval - 1) \div rule.interval
        last == IF before < rule.dtstart THEN -1
                ELSE (before - rule.dtstart) \div rule.interval
    IN [i \in 1..(IF last >= first THEN last - first + 1 ELSE 0) |->
            rule.dtstart + (first + i - 1) * rule.interval]

----------------------------------------------------------------------------
(* TimeSlot: methods *)

TS_as_event_default_duration(self) ==
    IF Len(self.slots) > 0 /\ self.slots[1].kind = "datetime"
    THEN Ret([self EXCEPT !.slots =
                [i \in 1..Len(self.slots) |->
                    EV(EventSlot(0, self.slots[i].t, None, None))]])
    ELSE Ret(self)

\* TimeSlot.as_event: datetime items become EventSlots of the current __duration
TS_as_event(self) ==
    IF Len(self.slots) > 0 /\ self.slots[1].kind = "datetime"
    THEN Ret([self EXCEPT !.slots =
                [i \in 1..Len(self.slots) |->
                    EV(EventSlot(0, self.slots[i].t, None, Some(self.duration)))]])
    ELSE Ret(self)

\* TimeSlot.as_list: EventSlot items become their start instants; __slots[0] of an
\* empty list raises IndexError
TS_as_list(self) ==
    IF Len(self.slots) = 0 THEN Raise(self, "IndexError")
    ELSE IF self.slots[1].kind = "EventSlot"
    THEN Ret([self EXCEPT !.slots =
                [i \in 1..Len(self.slots) |-> DT(self.slots[i].e.start_time)]])
    ELSE Ret(self)

\* TimeSlot.__is_overlapping_events: "True" at the first event the slot overlaps,
\* "False" when there is none; an event that is no EventSlot has no end_time, so
\* reaching it raises AttributeError
RECURSIVE is_overlapping_events_from(_, _, _)
is_overlapping_events_from(slot, events, i) ==
    IF i > Len(events) THEN "False"
    ELSE IF events[i].kind # "EventSlot" THEN "AttributeError"
    ELSE IF is_overlapping(slot, events[i].e) THEN "True"
    ELSE is_overlapping_events_from(slot, events, i + 1)

is_overlapping_events_first_only(slot, events) ==
    IF Len(events) = 0 THEN "False"
    ELSE IF events[1].kind # "EventSlot" THEN "AttributeError"
    ELSE IF is_overlapping(slot, events[1].e) THEN "True" ELSE "False"

is_overlapping_events(slot, events) == is_overlapping_events_from(slot, events, 1)

\* the filter's test of one item of __slots: an instant has no is_overlapping, so
\* testing it against any event raises AttributeError
SlotVerdict(x, events) ==
    IF x.kind = "EventSlot" THEN is_overlapping_events(x.e, events)
    ELSE IF Len(events) = 0 THEN "False"
    ELSE "AttributeError"

\* TimeSlot.remove_events: keep the items overlapping none of the events; an
\* exception in the filter leaves __slots unassigned
TS_remove_events(self, events) ==
    IF \E i \in 1..Len(self.slots) : SlotVerdict(self.slots[i], events) = "AttributeError"
    THEN Raise(self, "AttributeError")
    ELSE Ret([self EXCEPT !.slots =
                SelectSeq(self.slots, LAMBDA x : SlotVerdict(x, events) = "False")])

\* TimeSlot.remove_event
TS_remove_event(self, event) == TS_remove_events(self, <<EV(event)>>)

\* the arguments remove is called with
ArgEventSlot(e) == [type |-> "EventSlot", items |-> <<EV(e)>>]
ArgList(items) == [type |-> "list", items |-> items]
ArgTimeSlot(other) == [type |-> "TimeSlot", items |-> other.slots]
ArgOther == [type |-> "int", items |-> <<>>]

\* TimeSlot.remove: materialise a RAW window, filter, and in the finally clause
\* convert back; an exception of the finally clause replaces the try's outcome
TS_remove(self, object) ==
    IF Len(self.slots) = 0 THEN Ret(self)
    ELSE
      LET slots_type == self.slots[1].kind
          s1 == IF slots_type = "datetime" THEN TS_as_event(self).obj ELSE self
          r == IF object.type = "EventSlot" THEN TS_remove_event(s1, object.items[1].e)
               ELSE IF object.type = "list" THEN TS_remove_events(s1, object.items)
               ELSE IF object.type = "TimeSlot" THEN TS_remove_events(s1, object.items)
               ELSE Raise(s1, "Exception")
          f == TS_as_list(r.obj)
      IN IF slots_type = "datetime"
         THEN (IF f.exc # "" THEN f ELSE Raise(f.obj, r.exc))
         ELSE r

TS__extends_from_end(self) == self.end_time + self.slot_duration

\* TimeSlot.__extends
TS__extends(self) == self.start_time + self.slot_duration

\* TimeSlot.extends
TS_extends(self, duration) ==
    LET s1 == [self EXCEPT !.slot_duration = duration]
    IN Ret([s1 EXCEPT !.end_time = TS__extends(s1)])

\* TimeSlot.__rrulestr
TS__rrulestr(self) ==
    LET interval == seconds_div_60(self.duration + self.gap)
    IN rrulestr(interval, self.start_time)

\* the candidates of TimeSlot.__generate: self.rule.between(start, end, inc=True)
Candidates(self) == between(self.rule, self.start_time, self.end_time)

TS__generate_no_date_filter(self) ==
    LET all == Candidates(self)
        inbh == IF self.business_hours # None
                THEN SelectSeq(all, LAMBDA x :
                        is_in_business_hours(self.business_hours[1], x, x + self.duration))
                ELSE all
    IN Ret([self EXCEPT !.slots = [i \in 1..Len(inbh) |-> DT(inbh[i])]])

TS__generate_no_hours_filter(self) ==
    LET all == Candidates(self)
        same == SelectSeq(all, LAMBDA x : date(x) = date(x + self.duration))
    IN Ret([self EXCEPT !.slots = [i \in 1..Len(same) |-> DT(same[i])]])

\* TimeSlot.__generate: the rule's occurrences in the window, those outside business
\* hours dropped when a table is set, those ending on another date dropped.  A rule
\* of interval 0 repeats dtstart for ever, so between() never returns once dtstart
\* is inside the window.
TS__generate(self) ==
    IF self.rule.interval = 0
    THEN (IF self.end_time < self.rule.dtstart
          THEN Ret([self EXCEPT !.slots = <<>>])
          ELSE Raise(self, "NoReturn"))
    ELSE
      LET all == Candidates(self)
          inbh == IF self.business_hours # None
                  THEN SelectSeq(all, LAMBDA x :
                          is_in_business_hours(self.business_hours[1], x, x + self.duration))
                  ELSE all
          same == SelectSeq(inbh, LAMBDA x : date(x) = date(x + self.duration))
      IN Ret([self EXCEPT !.slots = [i \in 1..Len(same) |-> DT(same[i])]])

\* TimeSlot.by
TS_by(self, duration) ==
    TS__generate([self EXCEPT !.duration =
                    IF truthy_td(duration) THEN duration[1] ELSE self.duration])

\* TimeSlot.__init__; now is datetime.utcnow(), the default end 23:59:59 of its day
\* is kept as the last whole minute of the day
TS__init__(now, start_time, end_time, business_hours, duration, gap, booked_slots) ==
    LET st == IF start_time # None THEN start_time[1] ELSE At(date(now), 0, 0)
        en == IF end_time # None THEN end_time[1] ELSE At(date(now), 23, 59)
        s0 == [start_time |-> st,
               end_time |-> en,
               slot_duration |-> seconds_div_60(en - st),
               duration |-> IF truthy_td(duration) THEN duration[1] ELSE DefaultDuration,
               gap |-> IF truthy_td(gap) THEN gap[1] ELSE 0,
               business_hours |-> business_hours,
               rule |-> rrulestr(0, st),
               slots |-> <<>>]
        s1 == [s0 EXCEPT !.rule = TS__rrulestr(s0)]
        b == TS_by(s1, None)
    IN IF b.exc # "" THEN b ELSE TS_remove(b.obj, ArgList(booked_slots))

----------------------------------------------------------------------------
(* The inputs the model draws its calls from *)

\* the longest list of events handed to one call
MaxListLen == 2

\* the most events a Calendar holds
MaxEvents == 2

Mon == 0
Tue == 1
Fri == 4
Sat == 5

\* a table closed on Monday with shorter Tuesday hours, as main.py builds one
CustomBusinessHours ==
    [d \in 1..7 |-> IF d = 1 THEN None
                    ELSE IF d = 2 THEN <<HM(9, 30), HM(17, 0)>>
                    ELSE DefaultBusinessHours[d]]

Tables == {None, Some(DefaultBusinessHours)}

\* (start_time, end_time) arguments of a window
Windows ==
    { <<Some(At(Mon, 16, 0)), Some(At(Mon, 19, 0))>>,
      <<Some(At(Fri, 22, 0)), Some(At(Sat, 1, 0))>>,
      <<None, None>> }

Nows == {At(Tue, 10, 15)}

Durations == {None, Some(60), Some(45)}
Gaps == {None, Some(15), Some(-90)}

\* the EventSlot objects callers hold: identity, start, end, duration
EventPool ==
    { EventSlot(1, At(Mon, 16, 30), Some(At(Mon, 17, 0)), None),
      EventSlot(2, At(Mon, 0, 0), Some(At(Sat, 23, 0)), None),
      EventSlot(3, At(Tue, 12, 0), None, Some(105)) }

\* the lists of at most n items over a set
RECURSIVE ListsUpTo(_, _)
ListsUpTo(S, n) ==
    IF n = 0 THEN {<<>>}
    ELSE LET shorter == ListsUpTo(S, n - 1)
         IN shorter \cup {Append(l, x) : l \in {m \in shorter : Len(m) = n - 1}, x \in S}

EventLists == ListsUpTo({EV(e) : e \in EventPool}, MaxListLen)

\* another TimeSlot handed to remove: RAW as constructed, or materialised
OtherTimeSlot ==
    TS__init__(At(Tue, 10, 15), Some(At(Mon, 16, 0)), Some(At(Mon, 17, 0)),
               None, Some(60), None, <<>>).obj

RemoveArgs ==
    {ArgEventSlot(e) : e \in EventPool}
    \cup {ArgList(l) : l \in EventLists}
    \cup {ArgTimeSlot(OtherTimeSlot), ArgTimeSlot(TS_as_event(OtherTimeSlot).obj),
          ArgOther}

----------------------------------------------------------------------------
(* The TimeSlot under test *)

NoCall == [op |-> "none", arg |-> <<>>, exc |-> "", before |-> <<>>]

NoCalendar == <<>>

TSInit ==
    /\ ts = <<>>
    /\ call = NoCall
    /\ cal = NoCalendar
    /\ calcall = NoCall
    /\ probe = NoCall

\* a call that does not return ends the program; any other call leaves the object usable
Usable == ts # <<>> /\ call.exc # "NoReturn"

\* TimeSlot(start_time, end_time, business_hours, duration, gap, booked_slots)
TSNew ==
    /\ ts = <<>> /\ call.op = "none"
    /\ \E w \in Windows, now \in Nows, bh \in Tables, d \in Durations, g \in Gaps,
          booked \in EventLists :
          LET r == TS__init__(now, w[1], w[2], bh, d, g, booked)
          IN /\ ts' = IF r.exc = "" THEN <<r.obj>> ELSE <<>>
             /\ call' = [op |-> "__init__", arg |-> ArgList(booked), exc |-> r.exc,
                         before |-> <<>>, duration |-> d, gap |-> g]
    /\ UNCHANGED <<cal, calcall, probe>>

\* ts.by(duration)
TSBy ==
    /\ Usable
    /\ \E d \in Durations :
          LET r == TS_by(ts[1], d)
          IN /\ ts' = <<r.obj>>
             /\ call' = [op |-> "by", arg |-> d, exc |-> r.exc, before |-> ts]
    /\ UNCHANGED <<cal, calcall, probe>>

\* ts.extends(duration)
TSExtends ==
    /\ Usable
    /\ \E d \in Durations \ {None} :
          LET r == TS_extends(ts[1], d[1])
          IN /\ ts' = <<r.obj>>
             /\ call' = [op |-> "extends", arg |-> d, exc |-> r.exc, before |-> ts]
    /\ UNCHANGED <<cal, calcall, probe>>

\* ts.as_event()
TSAsEvent ==
    /\ Usable
    /\ LET r == TS_as_event(ts[1])
       IN /\ ts' = <<r.obj>>
          /\ call' = [op |-> "as_event", arg |-> <<>>, exc |-> r.exc, before |-> ts]
    /\ UNCHANGED <<cal, calcall, probe>>

\* ts.as_list()
TSAsList ==
    /\ Usable
    /\ LET r == TS_as_list(ts[1])
       IN /\ ts' = <<r.obj>>
          /\ call' = [op |-> "as_list", arg |-> <<>>, exc |-> r.exc, before |-> ts]
    /\ UNCHANGED <<cal, calcall, probe>>

\* ts.remove(object)
TSRemove ==
    /\ Usable
    /\ \E a \in RemoveArgs :
          LET r == TS_remove(ts[1], a)
          IN /\ ts' = <<r.obj>>
             /\ call' = [op |-> "remove", arg |-> a, exc |-> r.exc, before |-> ts]
    /\ UNCHANGED <<cal, calcall, probe>>

TSNext == TSNew \/ TSBy \/ TSExtends \/ TSAsEvent \/ TSAsList \/ TSRemove

SpecTS == TSInit /\ [][TSNext]_vars

----------------------------------------------------------------------------
(* Calls of the pure methods *)

\* the instants is_in_business_hours is asked about: around opening and closing
\* time on an open day, the day after it and a closed day
ProbeInstants ==
    { At(d, hm[1], hm[2]) : d \in {Mon, Tue, Sat},
                            hm \in {<<7, 59>>, <<8, 0>>, <<8, 10>>, <<17, 50>>,
                                    <<18, 0>>, <<18, 1>>} }

ProbeTables == {DefaultBusinessHours, CustomBusinessHours}

\* the start and end instants of the EventSlots is_overlapping is asked about
ProbeBounds == {At(Mon, 10, 0), At(Mon, 10, 30), At(Mon, 11, 0), At(Mon, 11, 30),
                At(Mon, 12, 0)}

ProbeSlots == {EventSlot(0, s, Some(e), None) : s \in ProbeBounds, e \in ProbeBounds}

FnInit ==
    /\ ts = <<>>
    /\ call = NoCall
    /\ cal = NoCalendar
    /\ calcall = NoCall
    /\ probe = NoCall

\* table.is_in_business_hours(dt_after, dt_before)
FnIsInBusinessHours ==
    /\ \E table \in ProbeTables, dt_after \in ProbeInstants, dt_before \in ProbeInstants :
          probe' = [op |-> "is_in_business_hours",
                    self |-> table, dt_after |-> dt_after, dt_before |-> dt_before,
                    ret |-> is_in_business_hours(table, dt_after, dt_before)]
    /\ UNCHANGED <<ts, call, cal, calcall>>

\* a.is_overlapping(b), and b.is_overlapping(a) beside it
FnIsOverlapping ==
    /\ \E a \in ProbeSlots, b \in ProbeSlots :
          probe' = [op |-> "is_overlapping", self |-> a, other |-> b,
                    ret |-> is_overlapping(a, b),
                    ret_swapped |-> is_overlapping(b, a)]
    /\ UNCHANGED <<ts, call, cal, calcall>>

\* the durations extends is called with
ProbeDeltas == {30, -90}

\* a.extends(duration)
FnExtends ==
    /\ \E a \in ProbeSlots, d \in ProbeDeltas :
          probe' = [op |-> "extends", self |-> a, duration |-> d,
                    ret |-> EventSlot_extends(a, d)]
    /\ UNCHANGED <<ts, call, cal, calcall>>

FnNext == FnIsInBusinessHours \/ FnIsOverlapping \/ FnExtends

SpecFn == FnInit /\ [][FnNext]_vars

----------------------------------------------------------------------------
(* Claims about BusinessHours and EventSlot *)

\* hour and minute of an instant's time of day
HourOf(t) == (t % MinutesPerDay) \div MinutesPerHour
MinuteOf(t) == t % MinutesPerHour

\* an "HH:MM" entry is at or before the time of day of t
EntryAtOrBefore(s, t) == s.h < HourOf(t) \/ (s.h = HourOf(t) /\ s.m <= MinuteOf(t))

\* an "HH:MM" entry is at or after the time of day of t
EntryAtOrAfter(s, t) == s.h > HourOf(t) \/ (s.h = HourOf(t) /\ s.m >= MinuteOf(t))

\* the table entry of the weekday of t
EntryOfDay(table, t) == table[((t \div MinutesPerDay) % 7) + 1]

\* the span of the probe ends on a later calendar day than it starts
ProbeCrossesDay ==
    /\ probe.op = "is_in_business_hours"
    /\ probe.dt_before \div MinutesPerDay > probe.dt_after \div MinutesPerDay

\* C5 as stated: is_in_business_hours is false for every span that ends on a later
\* calendar day than it starts
C5_DayCrossingSpanIsOutside == ProbeCrossesDay => probe.ret = FALSE

\* C5 as amended: for a span that ends on a later calendar day, is_in_business_hours
\* compares times of day only: it is true exactly when the start weekday is open,
\* the start is at or after its opening time and the end's time of day is at or
\* before its closing time, so Monday 17:50 to Tuesday 08:10 is inside the default
\* hours
C5_DayCrossingSpanByTimeOfDay ==
    ProbeCrossesDay =>
        LET e == EntryOfDay(probe.self, probe.dt_after)
        IN /\ probe.ret = (/\ e # None
                           /\ EntryAtOrBefore(e[1], probe.dt_after)
                           /\ EntryAtOrAfter(e[2], probe.dt_before))
           /\ (/\ probe.self = DefaultBusinessHours
               /\ probe.dt_after = At(Mon, 17, 50)
               /\ probe.dt_before = At(Tue, 8, 10)) => probe.ret = TRUE

C5_Witness ==
    /\ ProbeCrossesDay
    /\ probe.self = DefaultBusinessHours
    /\ probe.dt_after = At(Mon, 17, 50)
    /\ probe.dt_before = At(Tue, 8, 10)
    /\ probe.ret = TRUE

\* C6: is_in_business_hours looks up the entry of dt_after's weekday only; it is false
\* when that entry is None and otherwise true exactly when the entry's opening time
\* is at or before dt_after's time of day and dt_before's time of day is at or
\* before the entry's closing time; Monday 08:00 to Monday 18:00 is inside the
\* default hours and no span starting on a Saturday is
C6_BusinessHoursLookup ==
    probe.op = "is_in_business_hours" =>
        LET e == EntryOfDay(probe.self, probe.dt_after)
        IN /\ e = None => probe.ret = FALSE
           /\ e # None => probe.ret = (/\ EntryAtOrBefore(e[1], probe.dt_after)
                                       /\ EntryAtOrAfter(e[2], probe.dt_before))
           /\ (/\ probe.self = DefaultBusinessHours
               /\ probe.dt_after = At(Mon, 8, 0)
               /\ probe.dt_before = At(Mon, 18, 0)) => probe.ret = TRUE
           /\ (/\ probe.self = DefaultBusinessHours
               /\ (probe.dt_after \div MinutesPerDay) % 7 = Sat) => probe.ret = FALSE
           /\ ts = <<>> /\ cal = NoCalendar

C6_Witness ==
    /\ probe.op = "is_in_business_hours"
    /\ probe.self = DefaultBusinessHours
    /\ probe.dt_after = At(Mon, 8, 0)
    /\ probe.dt_before = At(Mon, 18, 0)
    /\ probe.ret = TRUE

\* C7: is_overlapping is true exactly when self starts before other ends and self
\* ends after other starts; slots that touch at an endpoint do not overlap and a
\* non-empty slot overlaps an identical one
C7_OverlapHalfOpen ==
    probe.op = "is_overlapping" =>
        LET a == probe.self
            b == probe.other
        IN /\ probe.ret = ~(a.start_time >= b.end_time \/ a.end_time <= b.start_time)
           /\ (a.end_time = b.start_time /\ a.start_time < a.end_time
                                         /\ b.start_time < b.end_time)
                 => probe.ret = FALSE
           /\ (a.start_time = b.end_time /\ a.start_time < a.end_time
                                         /\ b.start_time < b.end_time)
                 => probe.ret = FALSE
           /\ (a.start_time = b.start_time /\ a.end_time = b.end_time
                                           /\ a.start_time < a.end_time)
                 => probe.ret = TRUE

C7_Witness ==
    /\ probe.op = "is_overlapping"
    /\ probe.self.start_time = At(Mon, 10, 0) /\ probe.self.end_time = At(Mon, 11, 0)
    /\ probe.other.start_time = At(Mon, 11, 0) /\ probe.other.end_time = At(Mon, 12, 0)
    /\ probe.ret = FALSE

----------------------------------------------------------------------------
(* Claims about TimeSlot *)

\* the window holds EventSlots (MATERIALIZED) / instants (RAW)
Materialized(self) == Len(self.slots) > 0 /\ self.slots[1].kind = "EventSlot"
Raw(self) == Len(self.slots) > 0 /\ self.slots[1].kind = "datetime"

\* the span [s, e) meets the span of one of the events
MeetsAny(s, e, events) ==
    \E j \in 1..Len(events) : s < events[j].e.end_time /\ e > events[j].e.start_time

\* the last call was remove with an EventSlot or a list of EventSlots
RemovedEvents ==
    /\ call.op = "remove"
    /\ call.arg.type \in {"EventSlot", "list"}

\* C1: remove(E) on a MATERIALIZED window keeps exactly the slots that overlap no
\* event of E, in their order: the length drops by the number of slots overlapping
\* some event, and no slot left overlaps an event
C1_SubtractionCompleteness ==
    (RemovedEvents /\ call.arg.type = "list" /\ Materialized(call.before[1])) =>
        LET before == call.before[1].slots
            E == call.arg.items
            hit == {i \in 1..Len(before) :
                        MeetsAny(before[i].e.start_time, before[i].e.end_time, E)}
            after == ts[1].slots
        IN /\ call.exc = ""
           /\ after = SelectSeq(before, LAMBDA x :
                         ~MeetsAny(x.e.start_time, x.e.end_time, E))
           /\ Len(after) = Len(before) - Cardinality(hit)
           /\ \A i \in 1..Len(after) :
                 /\ after[i].kind = "EventSlot"
                 /\ ~MeetsAny(after[i].e.start_time, after[i].e.end_time, E)

C1_Witness ==
    /\ RemovedEvents /\ call.arg.type = "list" /\ Materialized(call.before[1])
    /\ Len(call.arg.items) = 2
    /\ Len(ts[1].slots) > 0
    /\ Len(ts[1].slots) < Len(call.before[1].slots)

\* C3 as stated: remove on a non-empty RAW window completes for every subtrahend and
\* leaves the start instants of exactly the candidates overlapping no subtrahend
\* event, the constructor's remove(booked_slots) included
C3_RawRemoveCompletes ==
    /\ (RemovedEvents /\ Raw(call.before[1])) =>
          LET before == call.before[1].slots
              d == call.before[1].duration
          IN /\ call.exc = ""
             /\ ts[1].slots = SelectSeq(before, LAMBDA x :
                                 ~MeetsAny(x.t, x.t + d, call.arg.items))
    /\ call.op = "__init__" => call.exc = ""

\* the candidates start + k*interval inside [start, end]
Stepped(start, end, interval) ==
    LET n == IF end < start THEN 0 ELSE (end - start) \div interval + 1
    IN [k \in 1..n |-> start + (k - 1) * interval]

\* C4 as stated: after by(duration) the candidates are the instants
\* windowStart + k*(duration + gap) inside the window, bounds included, for the
\* duration passed to by()
C4_CandidatesStepByDuration ==
    (call.op = "by" /\ call.arg # None /\ call.exc = "") =>
        Candidates(ts[1]) =
            Stepped(ts[1].start_time, ts[1].end_time, call.arg[1] + ts[1].gap)

\* the table entry of the day of t admits the span from t to t + d
Admits(table, t, d) ==
    LET e == EntryOfDay(table, t)
    IN /\ e # None
       /\ EntryAtOrBefore(e[1], t)
       /\ EntryAtOrAfter(e[2], t + d)

\* C8: with a table configured every item starts on an open weekday at or after its
\* opening time and ends, for the current slot duration, at or before its closing
\* time, after construction and any by, remove, as_event, as_list
C8_ItemsInBusinessHours ==
    (ts # <<>> /\ ts[1].business_hours # None) =>
        \A i \in 1..Len(ts[1].slots) :
            LET x == ts[1].slots[i]
            IN /\ Admits(ts[1].business_hours[1], StartOf(x), ts[1].duration)
               /\ x.kind = "EventSlot" => x.e.end_time = x.e.start_time + ts[1].duration

C8_Witness ==
    /\ ts # <<>> /\ ts[1].business_hours # None
    /\ call.op = "by" /\ call.arg # None
    /\ Len(ts[1].slots) > 0
    /\ \E i \in 1..Len(Candidates(ts[1])) :
          /\ weekday(Candidates(ts[1])[i]) = Mon
          /\ ~Admits(ts[1].business_hours[1], Candidates(ts[1])[i], ts[1].duration)

\* C9: after generation (constructor or by) no item starts on one calendar date and
\* ends, for the slot duration, on another, with or without a table
C9_NoItemCrossesMidnight ==
    (ts # <<>> /\ call.op \in {"__init__", "by"} /\ call.exc = "") =>
        \A i \in 1..Len(ts[1].slots) :
            LET t == StartOf(ts[1].slots[i])
            IN t \div MinutesPerDay = (t + ts[1].duration) \div MinutesPerDay

C9_Witness ==
    /\ ts # <<>> /\ call.op = "by" /\ call.exc = ""
    /\ ts[1].business_hours = None
    /\ ts[1].duration = 60
    /\ Len(ts[1].slots) > 0
    /\ \E i \in 1..Len(Candidates(ts[1])) :
          /\ HourOf(Candidates(ts[1])[i]) = 23 /\ MinuteOf(Candidates(ts[1])[i]) = 30
          /\ \A j \in 1..Len(ts[1].slots) :
                StartOf(ts[1].slots[j]) # Candidates(ts[1])[i]

\* C10 as stated: remove(x) with x no EventSlot, list or TimeSlot raises in every
\* window state, the empty window included, and leaves the window as it was
C10_InvalidRemoveRaises ==
    (call.op = "remove" /\ call.arg.type = "int") =>
        /\ call.exc # ""
        /\ ts = call.before

----------------------------------------------------------------------------
(* Calendar *)

\* Calendar.__init__; __time_slots starts as an empty list, kept as no TimeSlot
Calendar__init__(business_hours) ==
    [business_hours |-> business_hours,
     events |-> <<>>,
     time_slots |-> <<>>,
     start_time |-> None,
     end_time |-> None,
     duration |-> None,
     gap |-> None]

\* the events list as the booked_slots argument
Booked(events) == [i \in 1..Len(events) |-> EV(events[i])]

Cal_generate_slots_assign_failed(self, now) ==
    LET r == TS__init__(now, self.start_time, self.end_time, self.business_hours,
                        self.duration, self.gap, Booked(self.events))
    IN IF r.exc = "" THEN Ret([self EXCEPT !.time_slots = <<r.obj>>])
       ELSE Raise([self EXCEPT !.time_slots = <<r.obj>>], r.exc)

\* Calendar._generate_slots: the new TimeSlot is assigned only when its constructor
\* returns
Cal_generate_slots(self, now) ==
    LET r == TS__init__(now, self.start_time, self.end_time, self.business_hours,
                        self.duration, self.gap, Booked(self.events))
    IN IF r.exc = "" THEN Ret([self EXCEPT !.time_slots = <<r.obj>>])
       ELSE Raise(self, r.exc)

\* the identity of an EventSlot that add_event constructs: one no event of the list has
NewId(events) ==
    CHOOSE n \in 10..(10 + Len(events)) : \A i \in 1..Len(events) : events[i].id # n

\* Calendar.add_event(event=event)
Cal_add_event(self, event, now) ==
    Cal_generate_slots([self EXCEPT !.events = Append(@, event)], now)

\* Calendar.add_event(start_time=, end_time=, duration=)
Cal_add_event_new(self, start_time, end_time, duration, now) ==
    Cal_add_event(self, EventSlot(NewId(self.events), start_time, end_time, duration), now)

\* list.remove(x): the list without the first item equal to x
RECURSIVE list_remove(_, _)
list_remove(l, x) ==
    IF l = <<>> THEN <<>>
    ELSE IF Head(l) = x THEN Tail(l)
    ELSE <<Head(l)>> \o list_remove(Tail(l), x)

InList(l, x) == \E i \in 1..Len(l) : l[i] = x

\* Calendar.remove_event: list.remove raises ValueError for a missing event
Cal_remove_event(self, event, now) ==
    IF ~InList(self.events, event) THEN Raise(self, "ValueError")
    ELSE Cal_generate_slots([self EXCEPT !.events = list_remove(@, event)], now)

\* Calendar.import_events
Cal_import_events(self, events, now) ==
    Cal_generate_slots([self EXCEPT !.events = @ \o events], now)

\* Calendar.purge_events: the events are removed one by one; the first missing one
\* raises ValueError with the earlier ones already removed and no regeneration
RECURSIVE Cal_purge_events(_, _, _)
Cal_purge_events(self, events, now) ==
    IF events = <<>> THEN Cal_generate_slots(self, now)
    ELSE IF ~InList(self.events, Head(events)) THEN Raise(self, "ValueError")
    ELSE Cal_purge_events([self EXCEPT !.events = list_remove(@, Head(events))],
                          Tail(events), now)

\* Calendar.generate_slots; now is datetime.utcnow().  With neither start_time nor
\* end_time, start_time.replace raises AttributeError after __start_time is set.
\* The default end 23:59:59.999999 is kept as the last whole minute of the day.
Cal_generate_slots_public(self, start_time, end_time, duration, gap, now) ==
    LET s1 == [self EXCEPT !.start_time =
                    IF start_time # None THEN start_time ELSE Some(now)]
    IN IF end_time = None /\ start_time = None THEN Raise(s1, "AttributeError")
       ELSE
         LET s2 == [s1 EXCEPT
                      !.end_time = IF end_time # None THEN end_time
                                   ELSE Some(At(date(start_time[1]), 23, 59)),
                      !.duration = IF truthy_td(duration) THEN duration
                                   ELSE Some(DefaultDuration),
                      !.gap = IF truthy_td(gap) THEN gap ELSE Some(0)]
         IN Cal_generate_slots(s2, now)

----------------------------------------------------------------------------
(* The Calendar under test *)

\* the EventSlot objects the Calendar's callers hold; the second covers every window
CalEventPool ==
    { EventSlot(1, At(Mon, 16, 30), Some(At(Mon, 17, 0)), None),
      EventSlot(2, At(Mon, 0, 0), Some(At(Sat, 23, 0)), None) }

CalEventLists == ListsUpTo(CalEventPool, MaxListLen)

\* (start_time, end_time, duration, gap) arguments of generate_slots: each one is
\* set in some call and unset in another
CalArgs ==
    { <<Some(At(Mon, 16, 0)), Some(At(Mon, 19, 0)), Some(60), Some(15)>>,
      <<Some(At(Mon, 16, 0)), None, None, None>>,
      <<None, Some(At(Tue, 12, 0)), None, Some(15)>>,
      <<None, None, Some(60), None>> }

CalInit ==
    /\ ts = <<>>
    /\ call = NoCall
    /\ \E bh \in Tables : cal = Calendar__init__(bh)
    /\ calcall = NoCall
    /\ probe = NoCall

CalCall(op, arg, now, r) ==
    /\ cal' = r.obj
    /\ calcall' = [op |-> op, arg |-> arg, exc |-> r.exc, before |-> cal, now |-> now]
    /\ UNCHANGED <<ts, call, probe>>

\* calendar.add_event(event)
CalAddEvent ==
    /\ Len(cal.events) < MaxEvents
    /\ \E e \in CalEventPool, now \in Nows :
          CalCall("add_event", <<e>>, now, Cal_add_event(cal, e, now))

\* calendar.add_event(start_time=..., end_time=...) with an end before the start,
\* as main.py adds one
CalAddEventNew ==
    /\ Len(cal.events) < MaxEvents
    /\ \E now \in Nows :
          CalCall("add_event", <<>>, now,
                  Cal_add_event_new(cal, At(Mon, 17, 0), Some(At(Mon, 16, 0)), None, now))

\* calendar.remove_event(event), with an event of the pool or one the list holds
CalRemoveEvent ==
    \E e \in CalEventPool \cup {cal.events[i] : i \in 1..Len(cal.events)}, now \in Nows :
        CalCall("remove_event", <<e>>, now, Cal_remove_event(cal, e, now))

\* calendar.import_events(events)
CalImportEvents ==
    \E l \in CalEventLists, now \in Nows :
        /\ Len(cal.events) + Len(l) <= MaxEvents
        /\ CalCall("import_events", l, now, Cal_import_events(cal, l, now))

\* calendar.purge_events(events)
CalPurgeEvents ==
    \E l \in CalEventLists, now \in Nows :
        CalCall("purge_events", l, now, Cal_purge_events(cal, l, now))

\* calendar.generate_slots(start_time, end_time, duration, gap)
CalGenerateSlots ==
    \E a \in CalArgs, now \in Nows :
        CalCall("generate_slots", a, now,
                Cal_generate_slots_public(cal, a[1], a[2], a[3], a[4], now))

CalNext ==
    \/ CalAddEvent \/ CalAddEventNew \/ CalRemoveEvent
    \/ CalImportEvents \/ CalPurgeEvents \/ CalGenerateSlots

SpecCal == CalInit /\ [][CalNext]_vars

----------------------------------------------------------------------------
(* Claims about Calendar *)

\* the window a fresh TimeSlot built from the Calendar's fields would hold
FreshWindow ==
    TS__init__(calcall.now, cal.start_time, cal.end_time, cal.business_hours,
               cal.duration, cal.gap, Booked(cal.events))

\* C2 as stated: after every Calendar call, returned or raised, get_slots() is the
\* window a fresh TimeSlot built from the current events and parameters would hold
C2_WindowNeverStale ==
    calcall.op # "none" =>
        /\ FreshWindow.exc = ""
        /\ cal.time_slots = <<FreshWindow.obj>>

----------------------------------------------------------------------------
(* Claims about degenerate intervals, failed regeneration and remove_event *)

\* the value an optional timedelta argument resolves to
Resolved(o, default) == IF o # None /\ o[1] # 0 THEN o[1] ELSE default

\* C11 as stated: a TimeSlot whose duration + gap resolves to zero or negative
\* minutes is rejected with an error and no window is produced
C11_DegenerateIntervalRejected ==
    (call.op = "__init__"
       /\ Resolved(call.duration, 30) + Resolved(call.gap, 0) <= 0) =>
        /\ call.exc # ""
        /\ ts = <<>>

\* the last Calendar call got as far as constructing the new TimeSlot: list.remove
\* (ValueError) and start_time.replace (AttributeError) fail before it
ReachedRegeneration ==
    calcall.op # "none" /\ calcall.exc \notin {"ValueError", "AttributeError"}

\* C12: when the construction of the new TimeSlot fails during a regeneration, the
\* call raises that error and get_slots() is the cached window of before the call
C12_FailedRegenerationKeepsWindow ==
    (ReachedRegeneration /\ FreshWindow.exc # "") =>
        /\ calcall.exc = FreshWindow.exc
        /\ cal.time_slots = calcall.before.time_slots

C12_Witness ==
    /\ ReachedRegeneration /\ FreshWindow.exc # ""
    /\ calcall.op = "add_event"
    /\ calcall.before.time_slots # <<>>
    /\ Len(calcall.before.time_slots[1].slots) > 0
    /\ cal.time_slots = calcall.before.time_slots

\* the list l without its k-th item
Without(l, k) == [i \in 1..(Len(l) - 1) |-> IF i < k THEN l[i] ELSE l[i + 1]]

\* C13 as stated: remove_event(e) with e missing raises and leaves the events and
\* the cached window as they were; with e present it removes one occurrence of e
\* and regenerates the window
C13_RemoveEvent ==
    calcall.op = "remove_event" =>
        LET e == calcall.arg[1]
            b == calcall.before
        IN IF \A i \in 1..Len(b.events) : b.events[i] # e
           THEN /\ calcall.exc # ""
                /\ cal.events = b.events
                /\ cal.time_slots = b.time_slots
           ELSE /\ \E k \in 1..Len(b.events) :
                      b.events[k] = e /\ cal.events = Without(b.events, k)
                /\ calcall.exc = ""
                /\ FreshWindow.exc = ""
                /\ cal.time_slots = <<FreshWindow.obj>>

----------------------------------------------------------------------------
(* Claims about representation toggling, symmetry and the EventSlot invariant *)

\* the start instants of the items of a window
Starts(self) == [i \in 1..Len(self.slots) |-> StartOf(self.slots[i])]

\* C14 as stated: in every window state as_event and as_list leave a window already
\* in the target representation as it is, and as_list after as_event gives back
\* the original start instants
C14_TogglingRoundTrips ==
    /\ call.op = "as_event" =>
          /\ call.exc = ""
          /\ Starts(ts[1]) = Starts(call.before[1])
          /\ Materialized(call.before[1]) => ts = call.before
    /\ call.op = "as_list" =>
          /\ call.exc = ""
          /\ Starts(ts[1]) = Starts(call.before[1])
          /\ \A i \in 1..Len(ts[1].slots) : ts[1].slots[i].kind = "datetime"
          /\ ~Materialized(call.before[1]) => ts = call.before

\* C15: is_overlapping gives the same answer with the two slots exchanged, for any
\* starts and ends, an end before its start included
C15_OverlapSymmetric ==
    probe.op = "is_overlapping" => probe.ret = probe.ret_swapped

C15_Witness ==
    /\ probe.op = "is_overlapping"
    /\ probe.self.start_time < probe.other.start_time
    /\ probe.other.end_time < probe.self.end_time
    /\ probe.other.start_time < probe.other.end_time
    /\ probe.ret = TRUE /\ probe.ret_swapped = TRUE

\* C16 as stated: every EventSlot ends at or after its start, the events a Calendar
\* stores through add_event included
C16_EventsEndAfterStart ==
    \A i \in 1..Len(cal.events) : cal.events[i].end_time >= cal.events[i].start_time

----------------------------------------------------------------------------
(* Claims about generate_slots, the duration of a RAW remove, extends and overlap *)

\* the last whole minute of the calendar day of t
EndOfDay(t) == (t \div MinutesPerDay) * MinutesPerDay + (MinutesPerDay - 1)

\* C17 as stated: generate_slots with any of its arguments unset completes, stores
\* start (or now), end (or the end of the day of the window start), duration (or 30
\* minutes) and gap (or zero), and regenerates the window from the current events
C17_GenerateSlotsDefaults ==
    calcall.op = "generate_slots" =>
        LET a == calcall.arg
            start == IF a[1] # None THEN a[1][1] ELSE calcall.now
        IN /\ calcall.exc = ""
           /\ cal.start_time = <<start>>
           /\ cal.end_time = <<IF a[2] # None THEN a[2][1] ELSE EndOfDay(start)>>
           /\ cal.duration = <<Resolved(a[3], 30)>>
           /\ cal.gap = <<Resolved(a[4], 0)>>
           /\ cal.events = calcall.before.events
           /\ FreshWindow.exc = ""
           /\ cal.time_slots = <<FreshWindow.obj>>

\* the instants of a RAW window that, as slots of d minutes, meet none of the events
KeptAs(before, d, events) ==
    SelectSeq(before.slots, LAMBDA x : ~MeetsAny(x.t, x.t + d, events))

\* C18 as stated: remove on a RAW window compares each instant t as the slot
\* [t, t + 30 minutes), whatever slot duration the window has
C18_RawRemoveUsesDefaultDuration ==
    (RemovedEvents /\ Raw(call.before[1]) /\ call.exc = "") =>
        ts[1].slots = KeptAs(call.before[1], 30, call.arg.items)

\* C18 as amended: remove on a RAW window compares each instant t as the slot
\* [t, t + d) for the window's current slot duration d
C18_RawRemoveUsesWindowDuration ==
    (RemovedEvents /\ Raw(call.before[1])) =>
        ts[1].slots = KeptAs(call.before[1], call.before[1].duration, call.arg.items)

C18_Witness ==
    /\ RemovedEvents /\ Raw(call.before[1]) /\ call.exc = ""
    /\ call.before[1].duration = 60
    /\ Len(ts[1].slots) > 0
    /\ ts[1].slots # KeptAs(call.before[1], 30, call.arg.items)

\* the instants start + k*interval of the window that pass the table, when there
\* is one, and end on the day they start
Generated(self) ==
    SelectSeq(Stepped(self.start_time, self.end_time, self.rule.interval),
              LAMBDA t : /\ self.business_hours # None =>
                              Admits(self.business_hours[1], t, self.duration)
                         /\ t \div MinutesPerDay
                              = (t + self.duration) \div MinutesPerDay)

C20_SlotsDisjoint ==
    (ts # <<>> /\ ts[1].gap >= 0 /\ Materialized(ts[1])) =>
        \A i \in 1..(Len(ts[1].slots) - 1) :
            ts[1].slots[i].e.end_time <= ts[1].slots[i + 1].e.start_time

----------------------------------------------------------------------------
(* Claims about the window bounds of generated slots and about purge_events *)

\* C21 as stated: after the constructor or by() every item lies inside the window:
\* its start is at or after the window start and its start + the slot duration is
\* at or before the window end
C21_SlotsInsideWindow ==
    (call.op \in {"__init__", "by"} /\ call.exc = "" /\ ts # <<>>) =>
        \A i \in 1..Len(ts[1].slots) :
            /\ StartOf(ts[1].slots[i]) >= ts[1].start_time
            /\ StartOf(ts[1].slots[i]) + ts[1].duration <= ts[1].end_time

\* the number of occurrences of x in the list l
Count(l, x) == Cardinality({i \in 1..Len(l) : l[i] = x})

\* C22 as stated: purge_events either removes every listed event, completes and
\* leaves the window regenerated from the remaining events, or fails with the
\* events list and the window exactly as they were before the call
C22_PurgeAllOrNothing ==
    calcall.op = "purge_events" =>
        \/ /\ calcall.exc = ""
           /\ \A e \in CalEventPool :
                 Count(cal.events, e)
                     = Count(calcall.before.events, e) - Count(calcall.arg, e)
           /\ FreshWindow.exc = ""
           /\ cal.time_slots = <<FreshWindow.obj>>
        \/ /\ calcall.exc # ""
           /\ cal.events = calcall.before.events
           /\ cal.time_slots = calcall.before.time_slots

====
